---- MODULE Spec2Model ----
(***************************************************************************)
(* Model of triqs/stat/mean_error.hpp: mean, mean_mpi, mean_and_err and    *)
(* mean_and_err_mpi, run by a group of processes that talk only through    *)
(* the blocking collectives mpi::all_reduce / mpi::all_reduce_in_place.    *)
(*                                                                         *)
(* Arithmetic is exact.  A real is a pair <<num, den>> in lowest terms     *)
(* with den > 0; den = 0 encodes the non-finite results of a division by   *)
(* zero: <<0,0>> is NaN, <<1,0>> is +inf, <<-1,0>> is -inf.  An element of *)
(* the sample type V is a complex number <<re, im>> of two such reals (a   *)
(* real sample has im = 0).                                                *)
(***************************************************************************)
EXTENDS Integers, Sequences, FiniteSets, TLC

\* Largest group of processes, and largest number of samples in the group.
MaxProcs == 2
MaxTotal == 3

--------------------------------------------------------------------------
\* Exact reals with the IEEE outcomes of a division by zero.

Abs(i) == IF i < 0 THEN -i ELSE i

Sign(i) == IF i < 0 THEN -1 ELSE IF i > 0 THEN 1 ELSE 0

RECURSIVE GCD(_, _)
GCD(a, b) == IF b = 0 THEN a ELSE GCD(b, a % b)

Norm(num, den) ==
  IF den = 0 THEN <<Sign(num), 0>>
  ELSE LET g == GCD(Abs(num), Abs(den))
           s == Sign(den)
       IN  <<(s * num) \div g, (s * den) \div g>>

RInt(i) == <<i, 1>>
RZero == <<0, 1>>
NaN == <<0, 0>>
PInf == <<1, 0>>

IsFinite(a) == a[2] # 0

RNeg(a) == <<-a[1], a[2]>>

RAdd(a, b) ==
  IF a[2] = 0 /\ b[2] = 0
  THEN (IF a = b THEN a ELSE NaN)
  ELSE Norm(a[1] * b[2] + b[1] * a[2], a[2] * b[2])

RSub(a, b) == RAdd(a, RNeg(b))

RMul(a, b) == Norm(a[1] * b[1], a[2] * b[2])

\* a / b; a finite non-zero a over zero is an infinity, 0 / 0 is NaN
RDiv(a, b) == RMul(a, Norm(b[2], b[1]))

RLess(a, b) == IsFinite(a) /\ IsFinite(b) /\ a[1] * b[2] < b[1] * a[2]

\* std::sqrt, kept exact: the result is represented by its radicand
Sqrt(a) ==
  IF a = NaN \/ a = RNeg(PInf) \/ RLess(a, RZero)
  THEN [sqrt_of |-> NaN]
  ELSE [sqrt_of |-> a]

--------------------------------------------------------------------------
\* The element algebra of V (complex scalars; reals are those with im = 0).

Cx(re, im) == <<re, im>>
CZero == Cx(RZero, RZero)
CReal(r) == Cx(r, RZero)
Re(z) == z[1]
Im(z) == z[2]

CAdd(x, y) == Cx(RAdd(Re(x), Re(y)), RAdd(Im(x), Im(y)))
CSub(x, y) == Cx(RSub(Re(x), Re(y)), RSub(Im(x), Im(y)))
CMul(x, y) == Cx(RSub(RMul(Re(x), Re(y)), RMul(Im(x), Im(y))),
                 RAdd(RMul(Re(x), Im(y)), RMul(Im(x), Re(y))))
\* x * r and x / r for a real r
CScale(x, r) == Cx(RMul(Re(x), r), RMul(Im(x), r))
CDiv(x, r) == Cx(RDiv(Re(x), r), RDiv(Im(x), r))
\* triqs::arrays::conj_r
conj_r(x) == Cx(Re(x), RNeg(Im(x)))

--------------------------------------------------------------------------
\* The sample values the inputs are drawn from: the reals 1, 2, 3 and the
\* complex unit i (so that conjugation matters).
Elems == {CReal(RInt(1)), CReal(RInt(2)), CReal(RInt(3)), Cx(RZero, RInt(1))}

\* All sequences over S of length at most k
RECURSIVE SeqsUpTo(_, _)
SeqsUpTo(S, k) ==
  IF k = 0 THEN {<<>>}
  ELSE LET shorter == SeqsUpTo(S, k - 1)
       IN  shorter \cup {Append(s, x) : s \in {t \in shorter : Len(t) = k - 1}, x \in S}

--------------------------------------------------------------------------
\* The loop bodies and the functions as pure operators.

\* Mutant of line 41: the position counted from one, dividing by n + 2
MeanUpdateFromOne(m, x, k) == CAdd(m, CDiv(CSub(x, m), RInt(k + 2)))

\* line 41: mean_calc += (x - mean_calc) / (n + 1)
MeanUpdate(m, x, k) == CAdd(m, CDiv(CSub(x, m), RInt(k + 1)))

\* Mutant of lines 75 and 95: no Bessel correction, dividing by length^2
ErrUpdateNoBessel(e, x, m, len) ==
  LET d == CSub(x, m)
  IN  RAdd(e, Re(CDiv(CMul(conj_r(d), d), RInt(len * len))))

\* lines 75 and 95:
\* err_calc += conj_r(x - mean_calc) * (x - mean_calc) / (length * (length - 1))
\* err_calc has the type of real(mean_calc)
ErrUpdate(e, x, m, len) ==
  LET d == CSub(x, m)
  IN  RAdd(e, Re(CDiv(CMul(conj_r(d), d), RInt(len * (len - 1)))))

\* Mutant of line 55: without the cast, data.size() / N is an integer division
RescaleIntegerDivision(m, size, total) ==
  IF total = 0 THEN CScale(m, NaN) ELSE CScale(m, RInt(size \div total))

\* Mutant of line 55: the division by N forgotten
RescaleNoDivision(m, size, total) == CScale(m, RInt(size))

\* line 55: M *= double(data.size()) / N
Rescale(m, size, total) == CScale(m, RDiv(RInt(size), RInt(total)))

RECURSIVE MeanLoop(_, _, _)
MeanLoop(d, k, m) ==
  IF k = Len(d) THEN m ELSE MeanLoop(d, k + 1, MeanUpdate(m, d[k + 1], k))

\* mean(data) of a non-empty sequence (lines 37-43)
mean(d) == MeanLoop(d, 0, CZero)

RECURSIVE ErrLoop(_, _, _, _, _)
ErrLoop(d, k, e, m, len) ==
  IF k = Len(d) THEN e ELSE ErrLoop(d, k + 1, ErrUpdate(e, d[k + 1], m, len), m, len)

\* mean_and_err(data) of a non-empty sequence (lines 66-78)
mean_and_err(d) ==
  [mean |-> mean(d), err |-> Sqrt(ErrLoop(d, 0, RZero, mean(d), Len(d)))]

--------------------------------------------------------------------------
\* State.  The group calls one function, op; process p holds data[p].

VARIABLES
  op,            \* the function every process of the group calls
  data,          \* data[p]: the local sequence of process p
  pc,            \* pc[p]: the source line process p is at
  n,             \* mean: the index of itertools::enumerate
  mean_calc,     \* mean: the accumulator
  M,             \* mean_mpi: M
  N,             \* mean_mpi: N
  length,        \* mean_and_err, mean_and_err_mpi: length
  me_mean_calc,  \* mean_and_err, mean_and_err_mpi: mean_calc
  err_calc,      \* mean_and_err, mean_and_err_mpi: err_calc
  it,            \* mean_and_err, mean_and_err_mpi: position of the range-for
  ret,           \* ret[p]: the value process p returned
  sent           \* sent[p]: the collectives process p has entered, in order

vars == <<op, data, pc, n, mean_calc, M, N, length, me_mean_calc, err_calc,
          it, ret, sent>>

Procs == 1 .. Len(data)

LocalOps == {"mean", "mean_and_err"}
MpiOps == {"mean_mpi", "mean_and_err_mpi"}

\* The first line a call of op executes (mean_mpi starts by calling mean)
Entry(o) ==
  CASE o = "mean" -> "L39"
    [] o = "mean_mpi" -> "L53"
    [] o = "mean_and_err" -> "L71"
    [] o = "mean_and_err_mpi" -> "L91"

\* The local sequences: a sequence g cut into k contiguous (maybe empty) parts
Part(g, cuts, k, p) ==
  SubSeq(g, (IF p = 1 THEN 0 ELSE cuts[p - 1]) + 1, IF p = k THEN Len(g) ELSE cuts[p])

Init ==
  /\ op \in LocalOps \cup MpiOps
  /\ \E k \in 1 .. MaxProcs, g \in SeqsUpTo(Elems, MaxTotal) :
       \E cuts \in [1 .. (k - 1) -> 0 .. Len(g)] :
         /\ op \in LocalOps => k = 1
         /\ \A j \in 1 .. (k - 2) : cuts[j] <= cuts[j + 1]
         /\ data = [p \in 1 .. k |-> Part(g, cuts, k, p)]
  /\ pc = [p \in Procs |-> Entry(op)]
  /\ n = [p \in Procs |-> 0]
  /\ mean_calc = [p \in Procs |-> CZero]
  /\ M = [p \in Procs |-> CZero]
  /\ N = [p \in Procs |-> 0]
  /\ length = [p \in Procs |-> 0]
  /\ me_mean_calc = [p \in Procs |-> CZero]
  /\ err_calc = [p \in Procs |-> RZero]
  /\ it = [p \in Procs |-> 0]
  /\ ret = [p \in Procs |-> [mean |-> CZero, err |-> Sqrt(RZero)]]
  /\ sent = [p \in Procs |-> <<>>]

--------------------------------------------------------------------------
\* The communicator: blocking sum-reductions, matched by their position in
\* each process's sequence of collectives.

\* A count and a real travel as complex values with zero imaginary part
Post(p, kind, arg, val) ==
  [sent EXCEPT ![p] = Append(@, [kind |-> kind, arg |-> arg, val |-> val])]

\* The collective process p is blocked in has been entered by every process
Ready(p) == \A q \in Procs : Len(sent[q]) >= Len(sent[p])

RECURSIVE SumUpTo(_, _)
SumUpTo(i, k) == IF k = 0 THEN CZero ELSE CAdd(SumUpTo(i, k - 1), sent[k][i].val)

\* What mpi::all_reduce hands to process p: the sum over the whole group
AllReduce(p) == SumUpTo(Len(sent[p]), Len(data))

\* Mutant of lines 56-57: the reduction's result dropped, the local M returned
UnreducedM(p) == M[p]

\* line 57: the M mean_mpi returns is the one reduced in place at line 56
ReducedM(p) == AllReduce(p)

\* Mutant of line 95: deviations taken from the local mean
DevMeanLocal(p) == mean(data[p])

\* line 95: the mean the deviations are taken from is mean_mpi's result
DevMean(p) == me_mean_calc[p]

--------------------------------------------------------------------------
\* mean (lines 37-43)

\* lines 39-40: auto mean_calc = data[0]; mean_calc = 0;
\* data[0] of an empty container is undefined behaviour: the read either
\* faults, or yields a garbage value that line 40 overwrites.
mean_L39(p) ==
  /\ pc[p] = "L39"
  /\ \/ /\ pc' = [pc EXCEPT ![p] = "L41"]
        /\ mean_calc' = [mean_calc EXCEPT ![p] = CZero]
        /\ n' = [n EXCEPT ![p] = 0]
     \/ /\ data[p] = <<>>
        /\ pc' = [pc EXCEPT ![p] = "crashed"]
        /\ UNCHANGED <<mean_calc, n>>
  /\ UNCHANGED <<op, data, M, N, length, me_mean_calc, err_calc, it, ret, sent>>

\* line 41: one iteration of the loop over itertools::enumerate(data)
mean_L41(p) ==
  /\ pc[p] = "L41"
  /\ n[p] < Len(data[p])
  /\ mean_calc' = [mean_calc EXCEPT ![p] = MeanUpdate(@, data[p][n[p] + 1], n[p])]
  /\ n' = [n EXCEPT ![p] = @ + 1]
  /\ UNCHANGED <<op, data, pc, M, N, length, me_mean_calc, err_calc, it, ret, sent>>

\* line 42: return mean_calc, to the end of the call (mean) or to lines 72-74
\* of mean_and_err
mean_L42(p) ==
  /\ pc[p] = "L41"
  /\ n[p] = Len(data[p])
  /\ IF op = "mean"
     THEN /\ ret' = [ret EXCEPT ![p].mean = mean_calc[p]]
          /\ pc' = [pc EXCEPT ![p] = "done"]
          /\ UNCHANGED <<me_mean_calc, err_calc, it>>
     ELSE /\ me_mean_calc' = [me_mean_calc EXCEPT ![p] = mean_calc[p]]
          /\ err_calc' = [err_calc EXCEPT ![p] = RZero]
          /\ it' = [it EXCEPT ![p] = 0]
          /\ pc' = [pc EXCEPT ![p] = "L75"]
          /\ UNCHANGED ret
  /\ UNCHANGED <<op, data, n, mean_calc, M, N, length, sent>>

--------------------------------------------------------------------------
\* mean_mpi (lines 51-58).  The statements between two collectives touch
\* only the process's own variables and are taken in one step.

\* line 53: auto M = make_regular(mean(data)), with mean's undefined read of
\* data[0] when data is empty; line 54: enter mpi::all_reduce(data.size(), c)
mean_mpi_L53(p) ==
  /\ pc[p] = "L53"
  /\ \/ /\ M' = [M EXCEPT ![p] = mean(data[p])]
        /\ sent' = Post(p, "all_reduce", "data.size()", CReal(RInt(Len(data[p]))))
        /\ pc' = [pc EXCEPT ![p] = "L54w"]
     \/ /\ data[p] = <<>>
        /\ pc' = [pc EXCEPT ![p] = "crashed"]
        /\ UNCHANGED <<M, sent>>
  /\ UNCHANGED <<op, data, n, mean_calc, N, length, me_mean_calc, err_calc, it, ret>>

\* line 54: the reduction returns, long N = ...; line 55: the rescaling;
\* line 56: enter mpi::all_reduce_in_place(M, c)
mean_mpi_L55(p) ==
  /\ pc[p] = "L54w"
  /\ Ready(p)
  /\ LET total == Re(AllReduce(p))[1]
         m == Rescale(M[p], Len(data[p]), total)
     IN  /\ N' = [N EXCEPT ![p] = total]
         /\ M' = [M EXCEPT ![p] = m]
         /\ sent' = Post(p, "all_reduce_in_place", "M", m)
  /\ pc' = [pc EXCEPT ![p] = "L56w"]
  /\ UNCHANGED <<op, data, n, mean_calc, length, me_mean_calc, err_calc, it, ret>>

\* line 56: the reduction returns; line 57: return M, to the end of the call
\* (mean_mpi) or to line 92 of mean_and_err_mpi
mean_mpi_L57(p) ==
  /\ pc[p] = "L56w"
  /\ Ready(p)
  /\ M' = [M EXCEPT ![p] = ReducedM(p)]
  /\ IF op = "mean_mpi"
     THEN /\ ret' = [ret EXCEPT ![p].mean = M'[p]]
          /\ pc' = [pc EXCEPT ![p] = "done"]
          /\ UNCHANGED me_mean_calc
     ELSE /\ me_mean_calc' = [me_mean_calc EXCEPT ![p] = M'[p]]
          /\ pc' = [pc EXCEPT ![p] = "L93"]
          /\ UNCHANGED ret
  /\ UNCHANGED <<op, data, n, mean_calc, N, length, err_calc, it, sent>>

--------------------------------------------------------------------------
\* mean_and_err (lines 66-78)

\* line 71: long length = data.size(); line 72 calls mean
mean_and_err_L71(p) ==
  /\ pc[p] = "L71"
  /\ length' = [length EXCEPT ![p] = Len(data[p])]
  /\ pc' = [pc EXCEPT ![p] = "L39"]
  /\ UNCHANGED <<op, data, n, mean_calc, M, N, me_mean_calc, err_calc, it, ret, sent>>

\* line 75: one iteration of the loop over data
mean_and_err_L75(p) ==
  /\ pc[p] = "L75"
  /\ it[p] < Len(data[p])
  /\ err_calc' = [err_calc EXCEPT
                    ![p] = ErrUpdate(@, data[p][it[p] + 1], me_mean_calc[p], length[p])]
  /\ it' = [it EXCEPT ![p] = @ + 1]
  /\ UNCHANGED <<op, data, pc, n, mean_calc, M, N, length, me_mean_calc, ret, sent>>

\* lines 76-77: err_calc = sqrt(err_calc); return the pair
mean_and_err_L76(p) ==
  /\ pc[p] = "L75"
  /\ it[p] = Len(data[p])
  /\ ret' = [ret EXCEPT ![p] = [mean |-> me_mean_calc[p], err |-> Sqrt(err_calc[p])]]
  /\ pc' = [pc EXCEPT ![p] = "done"]
  /\ UNCHANGED <<op, data, n, mean_calc, M, N, length, me_mean_calc, err_calc, it, sent>>

--------------------------------------------------------------------------
\* mean_and_err_mpi (lines 86-99)

\* line 91: enter mpi::all_reduce(data.size(), c)
mean_and_err_mpi_L91(p) ==
  /\ pc[p] = "L91"
  /\ sent' = Post(p, "all_reduce", "data.size()", CReal(RInt(Len(data[p]))))
  /\ pc' = [pc EXCEPT ![p] = "L91w"]
  /\ UNCHANGED <<op, data, n, mean_calc, M, N, length, me_mean_calc, err_calc, it, ret>>

\* line 91: the reduction returns, long length = ...; line 92 calls mean_mpi
mean_and_err_mpi_L92(p) ==
  /\ pc[p] = "L91w"
  /\ Ready(p)
  /\ length' = [length EXCEPT ![p] = Re(AllReduce(p))[1]]
  /\ pc' = [pc EXCEPT ![p] = "L53"]
  /\ UNCHANGED <<op, data, n, mean_calc, M, N, me_mean_calc, err_calc, it, ret, sent>>

\* lines 93-95: err_calc = 0 and the loop over the local data;
\* line 96: enter mpi::all_reduce_in_place(err_calc, c)
mean_and_err_mpi_L95(p) ==
  /\ pc[p] = "L93"
  /\ LET e == ErrLoop(data[p], 0, RZero, DevMean(p), length[p])
     IN  /\ err_calc' = [err_calc EXCEPT ![p] = e]
         /\ sent' = Post(p, "all_reduce_in_place", "err_calc", CReal(e))
  /\ it' = [it EXCEPT ![p] = Len(data[p])]
  /\ pc' = [pc EXCEPT ![p] = "L96w"]
  /\ UNCHANGED <<op, data, n, mean_calc, M, N, length, me_mean_calc, ret>>

\* line 96: the reduction returns; lines 97-98: sqrt, return the pair
mean_and_err_mpi_L97(p) ==
  /\ pc[p] = "L96w"
  /\ Ready(p)
  /\ err_calc' = [err_calc EXCEPT ![p] = Re(AllReduce(p))]
  /\ ret' = [ret EXCEPT ![p] = [mean |-> me_mean_calc[p], err |-> Sqrt(err_calc'[p])]]
  /\ pc' = [pc EXCEPT ![p] = "done"]
  /\ UNCHANGED <<op, data, n, mean_calc, M, N, length, me_mean_calc, it, sent>>

--------------------------------------------------------------------------
Next ==
  \/ \E p \in Procs : mean_L39(p)
  \/ \E p \in Procs : mean_L41(p)
  \/ \E p \in Procs : mean_L42(p)
  \/ \E p \in Procs : mean_mpi_L53(p)
  \/ \E p \in Procs : mean_mpi_L55(p)
  \/ \E p \in Procs : mean_mpi_L57(p)
  \/ \E p \in Procs : mean_and_err_L71(p)
  \/ \E p \in Procs : mean_and_err_L75(p)
  \/ \E p \in Procs : mean_and_err_L76(p)
  \/ \E p \in Procs : mean_and_err_mpi_L91(p)
  \/ \E p \in Procs : mean_and_err_mpi_L92(p)
  \/ \E p \in Procs : mean_and_err_mpi_L95(p)
  \/ \E p \in Procs : mean_and_err_mpi_L97(p)

Spec == Init /\ [][Next]_vars

--------------------------------------------------------------------------
\* Vocabulary of the properties: the mathematical mean and squared
\* deviations, stated without the code's recurrences.

RECURSIVE Flatten(_)
Flatten(ds) == IF ds = <<>> THEN <<>> ELSE Flatten(SubSeq(ds, 1, Len(ds) - 1)) \o ds[Len(ds)]

\* The concatenation of all local sequences, and the global sample count
Union == Flatten(data)
Total == Len(Union)

AllNonEmpty == \A p \in Procs : data[p] # <<>>
AllDone == \A p \in Procs : pc[p] = "done"

RECURSIVE CSum(_)
CSum(d) == IF d = <<>> THEN CZero ELSE CAdd(CSum(SubSeq(d, 1, Len(d) - 1)), d[Len(d)])

\* sum / length
AMean(d) == CDiv(CSum(d), RInt(Len(d)))

\* sum over the elements x of d of conj(x - m) * (x - m)
RECURSIVE SqDev(_, _)
SqDev(d, m) ==
  IF d = <<>> THEN RZero
  ELSE LET x == CSub(d[Len(d)], m)
       IN  RAdd(SqDev(SubSeq(d, 1, Len(d) - 1), m), Re(CMul(conj_r(x), x)))

ErrSq(e) == e.sqrt_of

One == CReal(RInt(1))
Two == CReal(RInt(2))
Three == CReal(RInt(3))
OneThird == Norm(1, 3)

\* sum over the processes 1..k of M_local * (N_local / N)
RECURSIVE WeightedMeans(_)
WeightedMeans(k) ==
  IF k = 0 THEN CZero
  ELSE CAdd(WeightedMeans(k - 1),
            CScale(AMean(data[k]), RDiv(RInt(Len(data[k])), RInt(Total))))

--------------------------------------------------------------------------
\* C1: when every process holds a non-empty local sequence, the value
\* mean_mpi returns on every process is the single-process mean of the
\* concatenation of the local sequences, which is sum / N of the union and
\* the sum over the processes of M_local * (N_local / N).
C1_MeanMpiIsMeanOfUnion ==
  (op = "mean_mpi" /\ AllNonEmpty) =>
    \A p \in Procs :
      pc[p] = "done" =>
        /\ ret[p].mean = mean(Union)
        /\ ret[p].mean = AMean(Union)
        /\ ret[p].mean = WeightedMeans(Len(data))

\* mean_mpi has returned on two processes holding unequal, non-empty parts
C1_Witness ==
  /\ op = "mean_mpi"
  /\ Len(data) = 2
  /\ AllNonEmpty
  /\ Len(data[1]) # Len(data[2])
  /\ mean(data[1]) # mean(data[2])
  /\ AllDone

\* C2: with at least one sample on every process and N >= 2 in total,
\* mean_and_err_mpi returns on every process the pair (mean, error) that
\* mean_and_err returns for the concatenated sequence; A = [1,2], B = [3]
\* gives mean 2 and error^2 = 1/3.
C2_MeanErrMpiIsMeanErrOfUnion ==
  (op = "mean_and_err_mpi" /\ AllNonEmpty /\ Total >= 2) =>
    \A p \in Procs :
      pc[p] = "done" =>
        /\ ret[p] = mean_and_err(Union)
        /\ RMul(ErrSq(ret[p].err), RInt(Total * (Total - 1))) = SqDev(Union, AMean(Union))
        /\ data = << <<One, Two>>, <<Three>> >> =>
             ret[p].mean = Two /\ ErrSq(ret[p].err) = OneThird

\* mean_and_err_mpi has returned for A = [1,2], B = [3]
C2_Witness ==
  /\ op = "mean_and_err_mpi"
  /\ data = << <<One, Two>>, <<Three>> >>
  /\ AllDone

\* C3 (as claimed): in mean_and_err_mpi a process with an empty local
\* sequence completes the call like the others, and the result is that of
\* mean_and_err over the whole sequence.
C3_EmptyLocalSequenceSupported ==
  (op = "mean_and_err_mpi" /\ Total >= 2 /\ ~AllNonEmpty) =>
    \A p \in Procs :
      /\ pc[p] # "crashed"
      /\ pc[p] = "done" => ret[p] = mean_and_err(Union)

\* C4 (as claimed): mean on an empty sequence, called directly or as step 1
\* of mean_mpi, leaves its first line only as a reported precondition
\* failure: it neither reads data[0] nor goes on to return a value.
C4_EmptyMeanIsReported ==
  \A p \in Procs :
    (op \in {"mean", "mean_mpi"} /\ data[p] = <<>>) =>
      pc[p] \in {Entry(op), "precondition_failure"}

\* C5 (as claimed): with a single sample (local length 1 in mean_and_err,
\* global count 1 in mean_and_err_mpi) the call does not return the result
\* of the division by N * (N - 1) = 0 as an ordinary result.
C5_SingleSampleIsFlagged ==
  \A p \in Procs :
    (op \in {"mean_and_err", "mean_and_err_mpi"} /\ AllNonEmpty /\ Total = 1) =>
      pc[p] # "done"

\* C6: for a sequence of length N >= 2 mean_and_err returns the mean
\* M = sum / N and an error with error^2 * N * (N - 1) equal to the sum of
\* conj(x - M) * (x - M) over the elements; error^2 is finite and >= 0, is 0
\* for a constant sequence, and [1,2,3] yields mean 2 and error^2 = 1/3.
C6_ErrorIsSumOfSquaredDeviations ==
  \A p \in Procs :
    (op = "mean_and_err" /\ Len(data[p]) >= 2 /\ pc[p] = "done") =>
      LET d == data[p]
          len == Len(d)
          e2 == ErrSq(ret[p].err)
      IN  /\ ret[p].mean = AMean(d)
          /\ RMul(e2, RInt(len * (len - 1))) = SqDev(d, AMean(d))
          /\ IsFinite(e2) /\ ~RLess(e2, RZero)
          /\ (\A i \in 1 .. len : d[i] = d[1]) => (e2 = RZero /\ ret[p].mean = d[1])
          /\ d = <<One, Two, Three>> => (ret[p].mean = Two /\ e2 = OneThird)

\* mean_and_err has returned for [1,2,3]
C6_Witness ==
  /\ op = "mean_and_err"
  /\ data = << <<One, Two, Three>> >>
  /\ AllDone

\* The collectives of one call of mean_and_err_mpi, in program order
\* (lines 91, 54, 56, 96)
Schedule ==
  << <<"all_reduce", "data.size()">>, <<"all_reduce", "data.size()">>,
     <<"all_reduce_in_place", "M">>, <<"all_reduce_in_place", "err_calc">> >>

Issued(p) == [i \in 1 .. Len(sent[p]) |-> <<sent[p][i].kind, sent[p][i].arg>>]

\* Process p has a step to take: it has neither returned nor faulted, and if
\* it is inside a collective, every process has entered that collective
CanStep(p) ==
  /\ pc[p] \notin {"done", "crashed"}
  /\ pc[p] \in {"L54w", "L56w", "L91w", "L96w"} => Ready(p)

\* C7 (as claimed): in mean_and_err_mpi every process issues the collectives
\* of Schedule in that order whatever its local data, so the i-th collective
\* of one process matches the i-th of every other, and every process
\* returns: the group never stops before all its processes are done.
C7_SameCollectivesAndAllReturn ==
  (op = "mean_and_err_mpi" /\ Total >= 2) =>
    /\ \A p \in Procs :
         /\ Len(sent[p]) <= Len(Schedule)
         /\ Issued(p) = SubSeq(Schedule, 1, Len(sent[p]))
    /\ \A p, q \in Procs :
         \A i \in 1 .. Len(sent[p]) : i <= Len(sent[q]) => Issued(p)[i] = Issued(q)[i]
    /\ AllDone \/ \E p \in Procs : CanStep(p)

\* C8: on a group of one process mean_mpi returns exactly mean(data) and
\* mean_and_err_mpi exactly mean_and_err(data) (length >= 2); the rescaled M
\* entering the reduction is the local mean and a reduction returns its input.
C8_OneProcessGroupIsLocal ==
  (op \in MpiOps /\ Len(data) = 1 /\ AllNonEmpty) =>
    /\ pc[1] = "L56w" => (M[1] = mean(data[1]) /\ AllReduce(1) = M[1])
    /\ (op = "mean_mpi" /\ pc[1] = "done") => ret[1].mean = mean(data[1])
    /\ (op = "mean_and_err_mpi" /\ pc[1] = "done" /\ Len(data[1]) >= 2) =>
         ret[1] = mean_and_err(data[1])

\* mean_and_err_mpi has returned on a group of one process with three samples
C8_Witness ==
  /\ op = "mean_and_err_mpi"
  /\ Len(data) = 1
  /\ Len(data[1]) = 3
  /\ data[1][1] # data[1][2]
  /\ AllDone

\* C9: in mean's loop the accumulator is zero before the first element and,
\* after the update for the element at zero-based position n - 1, the
\* arithmetic mean of the first n elements; mean returns sum / length.
C9_MeanLoopInvariant ==
  \A p \in Procs :
    /\ pc[p] = "L41" =>
         /\ n[p] <= Len(data[p])
         /\ mean_calc[p] = IF n[p] = 0 THEN CZero ELSE AMean(SubSeq(data[p], 1, n[p]))
    /\ (op = "mean" /\ data[p] # <<>> /\ pc[p] = "done") =>
         (ret[p].mean = AMean(data[p]) /\ ret[p].mean = mean(data[p]))

\* one step of the loop taken and not the last: two elements done of three
\* different ones, one of them complex
C9_Witness ==
  /\ op = "mean"
  /\ pc[1] = "L41"
  /\ n[1] = 2
  /\ Len(data[1]) = 3
  /\ data[1][1] # data[1][2]
  /\ Im(data[1][2]) # RZero

\* C10: when every process holds a non-empty local sequence, all processes
\* that have returned from mean_mpi or mean_and_err_mpi hold the same mean
\* and the same error, and the mean is that of the union, not a local part.
C10_Agreement ==
  (op \in MpiOps /\ AllNonEmpty) =>
    \A p, q \in Procs :
      (pc[p] = "done" /\ pc[q] = "done") =>
        /\ ret[p] = ret[q]
        /\ ret[p].mean = AMean(Union)

\* two processes with different local means have both returned an error
C10_Witness ==
  /\ op = "mean_and_err_mpi"
  /\ Len(data) = 2
  /\ AllNonEmpty
  /\ AMean(data[1]) # AMean(data[2])
  /\ AllDone

====
